---- MODULE Spec2Model ----
(***************************************************************************)
(* The transaction submission and verification core of zcncore             *)
(* (transaction.go): one Transaction object, the background tasks its      *)
(* operations spawn (submitTxn and the Verify loop), the miners and        *)
(* sharders they talk to, and the wall clock.                              *)
(*                                                                         *)
(* Strings that are hashes are numbers: 0 is the empty string, 1..3 are    *)
(* the values a hash function can produce.                                 *)
(***************************************************************************)
EXTENDS Integers, Sequences, FiniteSets, TLC

VARIABLES
    t,      \* the Transaction object (struct Transaction, lines 63-73)
    cfg,    \* the process-wide configuration (_config), fixed after startup
    now,    \* the wall clock, unix seconds (common.Now())
    ret,    \* the last operation called on the object, and what it returned
    sub,    \* the submission tasks: one per goroutine started by an operation
    vt      \* the Verify task: the goroutine started by Verify()

vars == <<t, cfg, now, ret, sub, vt>>

----------------------------------------------------------------------------
(* Bounds of the model. *)

MaxTime == 4        \* the clock runs 1..MaxTime
MaxChainLen == 2    \* min_required_chain_length ranges over 0..MaxChainLen
MaxSharders == 2    \* min_sharders_verify, the width of a quorum query
MaxMiners == 2      \* the number of sampled miners ranges over 0..MaxMiners
MaxTasks == 2       \* submission goroutines started on the one object
MaxVoters == 4      \* sharders asked by one call of a voting function
OutageEnd == 3      \* the time from which a stalled chain serves headers again

----------------------------------------------------------------------------
(* Program constants. *)

EmptyStr == 0                       \* "" for a string that holds a hash
defaultTxnExpirationSeconds == 2    \* the expiration window, in clock ticks
defaultWaitSeconds == 1             \* the inter-poll wait, in clock ticks
HTTPStatusOK == 200

StatusSuccess == "SUCCESS"
StatusError == "ERROR"
StatusUnknown == "UNKNOWN"

\* "" for the entity's hash and signature, which are tuples when set
NoText == <<>>

NoErr == "nil"
NoCb == "nil"
HashSpace == 1..3

Min(a, b) == IF a < b THEN a ELSE b
Max(a, b) == IF a > b THEN a ELSE b

\* time.Sleep(d): the clock has advanced when the sleeper runs again
\* (the clock of the model saturates at MaxTime).
SleepUntil(d) == Min(now + d, MaxTime)

----------------------------------------------------------------------------
(* Hashing and Merkle paths. *)

RECURSIVE Poly(_)
Poly(s) == IF s = <<>> THEN 1
           ELSE (2 * Poly(SubSeq(s, 1, Len(s) - 1)) + s[Len(s)] + 1) % 3

\* encryption.Hash over the colon-joined fields: a function of every field
HashData(s) == Poly(s) + 1

\* util.MHash: the parent of two Merkle nodes
MHash(a, b) == HashData(<<a, b>>)

RECURSIVE MerkleFold(_, _, _)
MerkleFold(h, nodes, leafIndex) ==
    IF nodes = <<>> THEN h
    ELSE MerkleFold(IF leafIndex % 2 = 1 THEN MHash(Head(nodes), h)
                                         ELSE MHash(h, Head(nodes)),
                    Tail(nodes), leafIndex \div 2)

\* util.VerifyMerklePath(hash, path, root)
VerifyMerklePath(hash, path, root) ==
    MerkleFold(hash, path.Nodes, path.LeafIndex) = root

\* transaction.NewTransactionReceipt(txn).GetHash()
ReceiptHash(txnHash) == HashData(<<txnHash>>)

\* the zero value of blockHeader
ZeroHeader ==
    [MinerId |-> 0, CreationDate |-> 0, Hash |-> EmptyStr, Round |-> 0,
     RoundRandomSeed |-> 0, MerkleTreeRoot |-> EmptyStr,
     ReceiptMerkleTreeRoot |-> EmptyStr]

\* isBlockExtends without the previous block's hash in the data
isBlockExtendsNoPrev(prevHash, block) ==
    block.Hash = HashData(<<block.MinerId, block.CreationDate, block.Round,
                            block.RoundRandomSeed, block.MerkleTreeRoot,
                            block.ReceiptMerkleTreeRoot>>)

\* isBlockExtends (lines 543-551): the hash of the header's data, the previous
\* block's hash among them, is the header's hash
isBlockExtends(prevHash, block) ==
    block.Hash = HashData(<<block.MinerId, prevHash, block.CreationDate,
                            block.Round, block.RoundRandomSeed,
                            block.MerkleTreeRoot, block.ReceiptMerkleTreeRoot>>)

----------------------------------------------------------------------------
(* What sharders can answer. *)

MTPaths == {[Nodes |-> <<>>, LeafIndex |-> 0], [Nodes |-> <<1>>, LeafIndex |-> 1]}

Confirmations ==
    [txnHash : 1..2, BlockHash : HashSpace, PreviousBlockHash : {1},
     CreationDate : {1}, MinerID : {1}, Round : {1}, RoundRandomSeed : {0},
     MerkleTreeRoot : 1..2, MerkleTreePath : MTPaths,
     ReceiptMerkleTreeRoot : 1..2,
     ReceiptMerkleTreePath : {[Nodes |-> <<>>, LeafIndex |-> 0]}]

\* no confirmation, or one that json.Unmarshal rejects (lines 412-416)
NoCfm == [txnHash |-> EmptyStr]

\* the creation_date of a latest_finalized_block: 0 when the field is absent
LfbTimes == {0, 1, MaxTime}

\* the body of an answer to the confirmation query
CfmBodies ==
    {[parse |-> FALSE, hasCfm |-> FALSE, cfm |-> NoCfm, hasLfb |-> FALSE, lfbCd |-> 0]}
    \cup [parse : {TRUE}, hasCfm : {FALSE}, cfm : {NoCfm}, hasLfb : {FALSE}, lfbCd : {0}]
    \cup [parse : {TRUE}, hasCfm : {FALSE}, cfm : {NoCfm}, hasLfb : {TRUE}, lfbCd : LfbTimes]
    \cup [parse : {TRUE}, hasCfm : {TRUE}, cfm : Confirmations, hasLfb : {TRUE}, lfbCd : {1}]
    \cup {[parse |-> TRUE, hasCfm |-> TRUE, cfm |-> NoCfm, hasLfb |-> TRUE, lfbCd |-> 1]}

GarbageCfmBody == [parse |-> FALSE, hasCfm |-> FALSE, cfm |-> NoCfm, hasLfb |-> FALSE, lfbCd |-> 0]

\* 200 with any body; 500 and a transport error (status 0) with no usable body
CfmResponses ==
    [StatusCode : {HTTPStatusOK}, Body : CfmBodies]
    \cup [StatusCode : {500, 0}, Body : {GarbageCfmBody}]


----------------------------------------------------------------------------
(* getBlockHeaderFromTransactionConfirmation (lines 409-443). *)

HeaderOfCfm(cfm) ==
    [MinerId |-> cfm.MinerID, CreationDate |-> cfm.CreationDate,
     Hash |-> cfm.BlockHash, Round |-> cfm.Round,
     RoundRandomSeed |-> cfm.RoundRandomSeed,
     MerkleTreeRoot |-> cfm.MerkleTreeRoot,
     ReceiptMerkleTreeRoot |-> cfm.ReceiptMerkleTreeRoot]

CfmRejected == [ok |-> FALSE, block |-> ZeroHeader]

\* the function without its receipt Merkle check
getBlockHeaderNoReceiptCheck(txnHash, body) ==
    IF ~body.hasCfm THEN CfmRejected
    ELSE IF body.cfm = NoCfm THEN CfmRejected
    ELSE LET cfm == body.cfm
             block == HeaderOfCfm(cfm)
         IN  IF txnHash # cfm.txnHash THEN CfmRejected
             ELSE IF ~VerifyMerklePath(cfm.txnHash, cfm.MerkleTreePath,
                                       cfm.MerkleTreeRoot) THEN CfmRejected
             ELSE IF isBlockExtends(cfm.PreviousBlockHash, block)
                  THEN [ok |-> TRUE, block |-> block]
                  ELSE CfmRejected

getBlockHeaderFromTransactionConfirmation(txnHash, body) ==
    IF ~body.hasCfm THEN CfmRejected
    ELSE IF body.cfm = NoCfm THEN CfmRejected
    ELSE LET cfm == body.cfm
             block == HeaderOfCfm(cfm)
         IN  IF txnHash # cfm.txnHash THEN CfmRejected
             ELSE IF ~VerifyMerklePath(cfm.txnHash, cfm.MerkleTreePath,
                                       cfm.MerkleTreeRoot) THEN CfmRejected
             ELSE IF ~VerifyMerklePath(ReceiptHash(cfm.txnHash),
                                       cfm.ReceiptMerkleTreePath,
                                       cfm.ReceiptMerkleTreeRoot) THEN CfmRejected
             ELSE IF isBlockExtends(cfm.PreviousBlockHash, block)
                  THEN [ok |-> TRUE, block |-> block]
                  ELSE CfmRejected

\* The four inclusion checks of a confirmation, each stated on its own.
TxnHashMatches(txnHash, cfm) == cfm.txnHash = txnHash
TxnPathVerifies(cfm) ==
    MerkleFold(cfm.txnHash, cfm.MerkleTreePath.Nodes,
               cfm.MerkleTreePath.LeafIndex) = cfm.MerkleTreeRoot
ReceiptPathVerifies(cfm) ==
    MerkleFold(ReceiptHash(cfm.txnHash), cfm.ReceiptMerkleTreePath.Nodes,
               cfm.ReceiptMerkleTreePath.LeafIndex) = cfm.ReceiptMerkleTreeRoot
BlockHashRecomputes(cfm) ==
    cfm.BlockHash = HashData(<<cfm.MinerID, cfm.PreviousBlockHash,
                               cfm.CreationDate, cfm.Round, cfm.RoundRandomSeed,
                               cfm.MerkleTreeRoot, cfm.ReceiptMerkleTreeRoot>>)
PassesAllChecks(txnHash, body) ==
    /\ body.parse
    /\ body.hasCfm
    /\ body.cfm # NoCfm
    /\ TxnHashMatches(txnHash, body.cfm)
    /\ TxnPathVerifies(body.cfm)
    /\ ReceiptPathVerifies(body.cfm)
    /\ BlockHashRecomputes(body.cfm)

----------------------------------------------------------------------------
(* getTransactionConfirmation (lines 445-491): the aggregator's locals.    *)
(* peers: sharder goroutines of queryFromSharders that have not finished;  *)
(* i: the loop counter. votes and passed are history: the votes cast and   *)
(* the responses received that pass the four checks.                       *)

NewCfmQuery(numSharders, txnHash) ==
    [n |-> numSharders, peers |-> numSharders, i |-> 0, txnHash |-> txnHash,
     maxConfirmation |-> 0, txnConfirmations |-> [h \in HashSpace |-> 0],
     blockHdr |-> ZeroHeader, confirmation |-> GarbageCfmBody, lfbCd |-> 0,
     votes |-> 0, passed |-> 0]

NoCfmQuery == NewCfmQuery(0, EmptyStr)

\* json.Unmarshal(lfbRaw, &lfb): an absent creation_date leaves the field
UnmarshalLfb(old, lfbCd) == IF lfbCd = 0 THEN old ELSE lfbCd

\* the loop with break for continue at line 464: a body that does not parse
\* ends the collection
ProcessCfmResponseBreaks(q, rsp) ==
    LET q1 == [q EXCEPT !.i = @ + 1,
                        !.passed = @ + (IF rsp.StatusCode = HTTPStatusOK
                                           /\ PassesAllChecks(q.txnHash, rsp.Body)
                                        THEN 1 ELSE 0)]
    IN  IF rsp.StatusCode # HTTPStatusOK THEN q1
        ELSE IF ~rsp.Body.parse THEN [q1 EXCEPT !.i = q.n]
        ELSE LET r == getBlockHeaderFromTransactionConfirmation(q.txnHash, rsp.Body)
                 c == q.txnConfirmations[r.block.Hash] + 1
             IN  IF r.ok
                 THEN IF c > q.maxConfirmation
                      THEN [q1 EXCEPT !.txnConfirmations[r.block.Hash] = c,
                                      !.votes = @ + 1,
                                      !.maxConfirmation = c,
                                      !.blockHdr = r.block,
                                      !.confirmation = rsp.Body]
                      ELSE [q1 EXCEPT !.txnConfirmations[r.block.Hash] = c,
                                      !.votes = @ + 1]
                 ELSE IF rsp.Body.hasLfb
                      THEN [q1 EXCEPT !.lfbCd = UnmarshalLfb(@, rsp.Body.lfbCd)]
                      ELSE q1

\* one iteration of the loop at lines 454-486, on the response rsp
ProcessCfmResponse(q, rsp) ==
    LET q1 == [q EXCEPT !.i = @ + 1,
                        !.passed = @ + (IF rsp.StatusCode = HTTPStatusOK
                                           /\ PassesAllChecks(q.txnHash, rsp.Body)
                                        THEN 1 ELSE 0)]
    IN  IF rsp.StatusCode # HTTPStatusOK THEN q1
        ELSE IF ~rsp.Body.parse THEN q1
        ELSE LET r == getBlockHeaderFromTransactionConfirmation(q.txnHash, rsp.Body)
                 c == q.txnConfirmations[r.block.Hash] + 1
             IN  IF r.ok
                 THEN IF c > q.maxConfirmation
                      THEN [q1 EXCEPT !.txnConfirmations[r.block.Hash] = c,
                                      !.votes = @ + 1,
                                      !.maxConfirmation = c,
                                      !.blockHdr = r.block,
                                      !.confirmation = rsp.Body]
                      ELSE [q1 EXCEPT !.txnConfirmations[r.block.Hash] = c,
                                      !.votes = @ + 1]
                 ELSE IF rsp.Body.hasLfb
                      THEN [q1 EXCEPT !.lfbCd = UnmarshalLfb(@, rsp.Body.lfbCd)]
                      ELSE q1

----------------------------------------------------------------------------
(* getBlockInfoByRound (lines 493-541). *)

HeaderBodies(round) ==
    {[parse |-> FALSE, hasHeader |-> FALSE, hasHash |-> FALSE, header |-> ZeroHeader],
     [parse |-> TRUE, hasHeader |-> FALSE, hasHash |-> FALSE, header |-> ZeroHeader]}
    \cup [parse : {TRUE}, hasHeader : {TRUE}, hasHash : {TRUE},
          header : [MinerId : {1}, CreationDate : {1}, Hash : HashSpace,
                    Round : {round}, RoundRandomSeed : {0},
                    MerkleTreeRoot : {1}, ReceiptMerkleTreeRoot : {1}]]

HeaderResponses(round) ==
    [StatusCode : {HTTPStatusOK}, Body : HeaderBodies(round)]
    \cup [StatusCode : {500, 0},
          Body : {[parse |-> FALSE, hasHeader |-> FALSE, hasHash |-> FALSE,
                   header |-> ZeroHeader]}]

NewHdrQuery(numSharders) ==
    [n |-> numSharders, peers |-> numSharders, i |-> 0, maxConsensus |-> 0,
     roundConsensus |-> [h \in HashSpace |-> 0], blkHdr |-> ZeroHeader]

NoHdrQuery == NewHdrQuery(0)

\* one iteration of the loop at lines 500-536, on the response rsp
ProcessHdrResponse(q, rsp) ==
    LET q1 == [q EXCEPT !.i = @ + 1]
    IN  IF rsp.StatusCode # HTTPStatusOK THEN q1
        ELSE IF ~rsp.Body.parse THEN q1
        ELSE IF ~rsp.Body.hasHeader THEN q1
        ELSE IF ~rsp.Body.hasHash THEN q1
        ELSE LET h == rsp.Body.header.Hash
                 c == q.roundConsensus[h] + 1
             IN  IF c > q.maxConsensus
                 THEN [q1 EXCEPT !.roundConsensus[h] = c,
                                 !.maxConsensus = c,
                                 !.blkHdr = rsp.Body.header]
                 ELSE [q1 EXCEPT !.roundConsensus[h] = c]

----------------------------------------------------------------------------
(* The Transaction object. *)

\* the body of a miner's answer; "" is the empty body
MinerBodies ==
    {[text |-> "garbage", entityHash |-> EmptyStr],
     [text |-> "json", entityHash |-> 1]}

EmptyBody == [text |-> "empty", entityHash |-> EmptyStr]

\* transaction.NewTransactionEntity: every field but the identity is zero
NewTransactionEntity ==
    [TransactionType |-> "send", ToClientID |-> 0, Value |-> 0,
     TransactionData |-> 0, Hash |-> NoText, Signature |-> NoText,
     CreationDate |-> 0, TransactionFee |-> 0]

newTransaction(cb, txnFee) ==
    [txn |-> [NewTransactionEntity EXCEPT !.TransactionFee = txnFee],
     txnOut |-> EmptyBody, txnHash |-> EmptyStr, txnStatus |-> StatusUnknown,
     txnError |-> NoErr, txnCb |-> cb,
     verifyStatus |-> StatusUnknown, verifyOut |-> GarbageCfmBody,
     verifyError |-> NoErr]

\* GetTransactionHash (lines 364-386): the value returned
GetTransactionHash(tt) ==
    IF tt.txnHash # EmptyStr THEN tt.txnHash
    ELSE IF tt.txnStatus # StatusSuccess THEN EmptyStr
    ELSE IF tt.txnOut.text = "json" THEN tt.txnOut.entityHash
    ELSE EmptyStr

\* completeVerify (lines 158-165): the object afterwards
completeVerify(tt, status, out, err) ==
    [tt EXCEPT !.verifyStatus = status, !.verifyOut = out, !.verifyError = err]

\* isTransactionExpired with >= for >
isTransactionExpiredOffByOne(creationDate, lfbCreationTime, currentTime) ==
    LET lfb == IF lfbCreationTime = 0 THEN currentTime ELSE lfbCreationTime
    IN  Min(lfb, currentTime) >= creationDate + defaultTxnExpirationSeconds

\* isTransactionExpired (lines 585-596), on t.txn.CreationDate
isTransactionExpired(creationDate, lfbCreationTime, currentTime) ==
    LET lfb == IF lfbCreationTime = 0 THEN currentTime ELSE lfbCreationTime
    IN  Min(lfb, currentTime) > creationDate + defaultTxnExpirationSeconds

\* the condition of line 619 with min for max
FallsBackToQuorumMin(creationDate, lfbCreationTime, tn) ==
    Min(lfbCreationTime, tn) < creationDate + defaultTxnExpirationSeconds

\* the condition of line 619, under which Verify falls back to the quorum
FallsBackToQuorum(creationDate, lfbCreationTime, tn) ==
    Max(lfbCreationTime, tn) < creationDate + defaultTxnExpirationSeconds

----------------------------------------------------------------------------
(* The Verify task (lines 612-648) and validateChain (lines 553-584).      *)
(* extended, stalled, escalated and cbs are history: the headers accepted   *)
(* as extensions, whether a header query of this validation failed, whether *)
(* the polling fell back to the quorum query, and the OnVerifyComplete      *)
(* calls made.                                                              *)

IdleTask ==
    [pc |-> "idle", cq |-> NoCfmQuery, hq |-> NoHdrQuery, tn |-> 0,
     lfbCd |-> 0, qhash |-> EmptyStr,
     confirmBlock |-> ZeroHeader, confirmation |-> GarbageCfmBody,
     confirmRound |-> 0, currentBlockHash |-> EmptyStr, round |-> 0,
     extended |-> 0, stalled |-> FALSE, escalated |-> FALSE, cbs |-> 0]

VerifyRunning == vt.pc \in {"probe", "quorum", "chain1", "chainq"}

\* Verify() (lines 597-650): the checks, then the goroutine starts its first
\* probe. The caller makes one Verify at a time, and (a bound of the model)
\* early enough for the expiration to fall within the clock's range.
Verify ==
    /\ ~VerifyRunning
    /\ LET h == GetTransactionHash(t)
           extract == t.txnHash = EmptyStr /\ t.txnStatus = StatusSuccess
           t1 == IF extract THEN [t EXCEPT !.txnHash = h] ELSE t
           cd == IF t.txn.CreationDate = 0 THEN now ELSE t.txn.CreationDate
       IN  IF \/ t.txnHash = EmptyStr /\ t.txnStatus = StatusUnknown
              \/ extract /\ h = EmptyStr
           THEN /\ ret' = [op |-> "Verify", err |-> TRUE]
                /\ UNCHANGED <<t, vt>>
           ELSE /\ cd + defaultTxnExpirationSeconds < MaxTime
                /\ ret' = [op |-> "Verify", err |-> FALSE]
                /\ t' = [t1 EXCEPT !.txn.CreationDate = cd]
                /\ vt' = [IdleTask EXCEPT !.pc = "probe",
                                          !.cq = NewCfmQuery(1, t1.txnHash)]
    /\ UNCHANGED <<cfg, now, sub>>

\* a sharder goroutine of queryFromSharders delivers its response
CfmRecv(rsp) ==
    /\ vt.pc \in {"probe", "quorum"}
    /\ vt.cq.peers > 0
    /\ vt' = [vt EXCEPT !.cq = [ProcessCfmResponse(@, rsp) EXCEPT !.peers = @ - 1]]
    /\ UNCHANGED <<t, cfg, now, ret, sub>>

\* a sharder goroutine returns at line 397 without sending
CfmPeerNoRequest ==
    /\ vt.pc \in {"probe", "quorum"}
    /\ vt.cq.peers > 0
    /\ vt' = [vt EXCEPT !.cq.peers = @ - 1]
    /\ UNCHANGED <<t, cfg, now, ret, sub>>

\* validateChain starts: lines 554-557
StartChain(q) ==
    [vt EXCEPT !.pc = "chain1", !.cq = NoCfmQuery, !.hq = NewHdrQuery(1),
               !.qhash = q.txnHash, !.tn = 0, !.lfbCd = 0,
               !.confirmBlock = q.blockHdr, !.confirmation = q.confirmation,
               !.confirmRound = q.blockHdr.Round,
               !.currentBlockHash = q.blockHdr.Hash,
               !.round = q.blockHdr.Round + 1, !.extended = 0,
               !.stalled = FALSE, !.escalated = FALSE]

\* lines 623-627 and 630-634: report the expiry, or wait and poll again
ExpireOrRetry(lfbCd, tn) ==
    IF isTransactionExpired(t.txn.CreationDate, lfbCd, tn)
    THEN /\ t' = completeVerify(t, StatusError, GarbageCfmBody, "verify transaction failed")
         /\ vt' = [vt EXCEPT !.pc = "done", !.cq = NoCfmQuery, !.tn = tn,
                             !.lfbCd = lfbCd,
                             !.cbs = @ + (IF t.txnCb # NoCb THEN 1 ELSE 0)]
         /\ UNCHANGED now
    ELSE /\ now' = SleepUntil(defaultWaitSeconds)
         /\ vt' = [vt EXCEPT !.pc = "probe", !.tn = tn, !.lfbCd = lfbCd,
                             !.cq = NewCfmQuery(1, t.txnHash)]
         /\ UNCHANGED t

\* getTransactionConfirmation returns (lines 487-490) and Verify goes on
CfmDone ==
    /\ vt.pc \in {"probe", "quorum"}
    /\ vt.cq.i = vt.cq.n
    /\ LET q == vt.cq
       IN  IF q.maxConfirmation # 0
           THEN /\ vt' = StartChain(q)
                /\ UNCHANGED <<t, now>>
           ELSE IF vt.pc = "probe"
           THEN IF FallsBackToQuorum(t.txn.CreationDate, q.lfbCd, now)
                THEN /\ vt' = [vt EXCEPT !.pc = "quorum", !.tn = now,
                                         !.lfbCd = q.lfbCd,
                                         !.escalated = TRUE,
                                         !.cq = NewCfmQuery(cfg.minShardersVerify,
                                                            t.txnHash)]
                     /\ UNCHANGED <<t, now>>
                ELSE ExpireOrRetry(q.lfbCd, now)
           ELSE ExpireOrRetry(q.lfbCd, vt.tn)
    /\ UNCHANGED <<cfg, ret, sub>>

HdrRecv(rsp) ==
    /\ vt.pc \in {"chain1", "chainq"}
    /\ vt.hq.peers > 0
    /\ vt' = [vt EXCEPT !.hq = [ProcessHdrResponse(@, rsp) EXCEPT !.peers = @ - 1]]
    /\ UNCHANGED <<t, cfg, now, ret, sub>>

HdrPeerNoRequest ==
    /\ vt.pc \in {"chain1", "chainq"}
    /\ vt.hq.peers > 0
    /\ vt' = [vt EXCEPT !.hq.peers = @ - 1]
    /\ UNCHANGED <<t, cfg, now, ret, sub>>

\* the loop test of validateChain with the bound one short
ChainContinuesOneLess(round, confirmRound) ==
    round > confirmRound /\ round - confirmRound < cfg.minRequiredChainLength - 1

\* line 574: the loop of validateChain goes on
ChainContinues(round, confirmRound) ==
    round > confirmRound /\ round - confirmRound < cfg.minRequiredChainLength

\* getBlockInfoByRound returns (lines 537-540): lines 560-582 of
\* validateChain, then lines 638-646 of Verify
HdrDone ==
    /\ vt.pc \in {"chain1", "chainq"}
    /\ vt.hq.i = vt.hq.n
    /\ IF vt.hq.maxConsensus = 0
       THEN IF vt.pc = "chain1"
            THEN /\ now' = SleepUntil(1)
                 /\ vt' = [vt EXCEPT !.pc = "chainq", !.stalled = TRUE,
                                     !.hq = NewHdrQuery(cfg.minShardersVerify)]
                 /\ UNCHANGED t
            ELSE /\ now' = SleepUntil(defaultWaitSeconds)
                 /\ vt' = [vt EXCEPT !.pc = "chain1", !.stalled = TRUE,
                                     !.hq = NewHdrQuery(1)]
                 /\ UNCHANGED t
       ELSE LET nextBlock == vt.hq.blkHdr
                ext == isBlockExtends(vt.currentBlockHash, nextBlock)
                cur == IF ext THEN nextBlock.Hash ELSE vt.currentBlockHash
                round == IF ext THEN vt.round + 1 ELSE vt.round
                v1 == [vt EXCEPT !.currentBlockHash = cur, !.round = round,
                                 !.extended = IF ext THEN @ + 1 ELSE @,
                                 !.hq = NoHdrQuery]
            IN  IF ChainContinues(round, vt.confirmRound)
                THEN /\ vt' = [v1 EXCEPT !.pc = "chain1", !.hq = NewHdrQuery(1)]
                     /\ UNCHANGED <<t, now>>
                ELSE IF round < vt.confirmRound
                THEN /\ vt' = [v1 EXCEPT !.pc = "probe",
                                         !.cq = NewCfmQuery(1, t.txnHash)]
                     /\ UNCHANGED <<t, now>>
                ELSE /\ t' = completeVerify(t, StatusSuccess, vt.confirmation, NoErr)
                     /\ vt' = [v1 EXCEPT !.pc = "done",
                                         !.cbs = @ + (IF t.txnCb # NoCb THEN 1 ELSE 0)]
                     /\ UNCHANGED now
    /\ UNCHANGED <<cfg, ret, sub>>

\* SetTransactionHash (lines 356-362)
SetTransactionHash(hash) ==
    /\ IF t.txnStatus # StatusUnknown
       THEN /\ ret' = [op |-> "SetTransactionHash", err |-> TRUE]
            /\ UNCHANGED t
       ELSE /\ ret' = [op |-> "SetTransactionHash", err |-> FALSE]
            /\ t' = [t EXCEPT !.txnHash = hash]
    /\ UNCHANGED <<cfg, now, sub, vt>>

\* the wall clock advances
Tick ==
    /\ now < MaxTime
    /\ now' = now + 1
    /\ UNCHANGED <<t, cfg, ret, sub, vt>>

NoRet == [op |-> "none", err |-> FALSE]

DefaultCfg ==
    [minRequiredChainLength |-> 1, minShardersVerify |-> 1,
     sampledMiners |-> 1, consensusThresh |-> 25]

VerifyInit ==
    /\ t = newTransaction("cb", 0)
    /\ cfg \in {[DefaultCfg EXCEPT !.minRequiredChainLength = l,
                                   !.minShardersVerify = MaxSharders] :
                    l \in 0..MaxChainLen}
    /\ now = 1
    /\ ret = NoRet
    /\ sub = <<>>
    /\ vt = IdleTask

VerifyTaskStep ==
    \/ \E rsp \in CfmResponses : CfmRecv(rsp)
    \/ CfmPeerNoRequest
    \/ CfmDone
    \/ \E rsp \in HeaderResponses(vt.round) : HdrRecv(rsp)
    \/ HdrPeerNoRequest
    \/ HdrDone

VerifyNext ==
    \/ \E h \in 1..2 : SetTransactionHash(h)
    \/ Verify
    \/ VerifyTaskStep
    \/ Tick

VerifySpec == VerifyInit /\ [][VerifyNext]_vars

\* The Verify task when every request to a sharder can be built, so that
\* every sharder goroutine delivers a response (an answer or a transport error).
AnsweredTaskStep ==
    \/ \E rsp \in CfmResponses : CfmRecv(rsp)
    \/ CfmDone
    \/ \E rsp \in HeaderResponses(vt.round) : HdrRecv(rsp)
    \/ HdrDone

AnsweredNext ==
    \/ \E h \in 1..2 : SetTransactionHash(h)
    \/ Verify
    \/ AnsweredTaskStep
    \/ Tick

\* goroutines are scheduled fairly and the clock advances
FairAnsweredSpec ==
    VerifyInit /\ [][AnsweredNext]_vars
        /\ WF_vars(AnsweredTaskStep) /\ WF_vars(Tick)

----------------------------------------------------------------------------
(* Submission: the operations, and submitTxn (lines 167-225). *)

\* ComputeHashData of the entity (invariant I1): the hash of the colon-joined
\* creation_date, client_id, to_client_id, value and hash of transaction_data;
\* client_id is the configured wallet's throughout
ComputeHashData(txn) ==
    <<"hash", txn.CreationDate, txn.ToClientID, txn.Value, txn.TransactionData>>

\* signFn (lines 114-118): the scheme signature of hash under keys[0] of the
\* configured wallet
signFn(hash) == <<"sig", "config.wallet", hash>>

\* txn.ComputeHashAndSign(signFn): creation_date is set when zero, the hash is
\* computed, and the signature is set when the signer succeeds
ComputeHashAndSign(txn, signOk) ==
    LET t1 == [txn EXCEPT !.CreationDate = IF @ = 0 THEN now ELSE @]
        t2 == [t1 EXCEPT !.Hash = ComputeHashData(t1)]
    IN  IF signOk THEN [t2 EXCEPT !.Signature = signFn(t2.Hash)] ELSE t2

NoArgs == [to |-> 0, val |-> 0, data |-> 0, sig |-> NoText, hash |-> NoText, cd |-> 0]

\* a goroutine started by an operation. pc: "build" (started, the entity not
\* yet written), "submit" (about to enter submitTxn), "collect" (in the loop
\* of lines 205-217), "done" (completeTxn has run). peers: miner goroutines
\* that have not finished. sigCall, status and cbs are history: whether
\* submitTxn invoked ComputeHashAndSign, the status handed to completeTxn and
\* the OnTransactionComplete calls made.
NewTask(op, pc, args) ==
    [op |-> op, pc |-> pc, args |-> args, K |-> 0, peers |-> 0, recv |-> 0,
     consensus |-> 0, tSuccessRsp |-> EmptyBody, tFailureRsp |-> EmptyBody,
     signed |-> FALSE, sigCall |-> FALSE, status |-> StatusUnknown, cbs |-> 0]

Tasks == 1..Len(sub)

CanSpawn == Len(sub) < MaxTasks

\* completeTxn (lines 149-156): the object afterwards
completeTxn(tt, status, out, err) ==
    [tt EXCEPT !.txnStatus = status, !.txnOut = out, !.txnError = err]

\* the goroutine after its completeTxn(status, ...): its locals are gone, the
\* callback was called if there is one
Completed(task, status) ==
    [NewTask(task.op, "done", NoArgs) EXCEPT
         !.status = status, !.signed = task.signed,
         !.sigCall = task.sigCall,
         !.K = task.K, !.consensus = task.consensus,
         !.cbs = task.cbs + (IF t.txnCb # NoCb THEN 1 ELSE 0)]

\* Send (lines 269-278)
Send(toClientID, val, desc) ==
    /\ CanSpawn
    /\ sub' = Append(sub, NewTask("Send", "build",
                  [NoArgs EXCEPT !.to = toClientID, !.val = val, !.data = desc]))
    /\ ret' = [op |-> "Send", err |-> FALSE]
    /\ UNCHANGED <<t, cfg, now, vt>>

\* SendWithSignatureHash (lines 280-292)
SendWithSignatureHash(toClientID, val, desc, sig, CreationDate, hash) ==
    /\ CanSpawn
    /\ sub' = Append(sub, NewTask("SendWithSignatureHash", "build",
                  [to |-> toClientID, val |-> val, data |-> desc, sig |-> sig,
                   hash |-> hash, cd |-> CreationDate]))
    /\ ret' = [op |-> "SendWithSignatureHash", err |-> FALSE]
    /\ UNCHANGED <<t, cfg, now, vt>>

\* StoreData (lines 294-301)
StoreData(data) ==
    /\ CanSpawn
    /\ sub' = Append(sub, NewTask("StoreData", "build", [NoArgs EXCEPT !.data = data]))
    /\ ret' = [op |-> "StoreData", err |-> FALSE]
    /\ UNCHANGED <<t, cfg, now, vt>>

\* createSmartContractTxn (lines 303-314): the entity afterwards
createSmartContractTxn(txn, address, data, value) ==
    [txn EXCEPT !.TransactionType = "smart contract", !.ToClientID = address,
                !.TransactionData = data, !.Value = value]

\* ExecuteSmartContract (lines 343-354)
ExecuteSmartContract(address, data, val) ==
    /\ CanSpawn
    /\ t' = [t EXCEPT !.txn = createSmartContractTxn(@, address, data, val)]
    /\ sub' = Append(sub, NewTask("ExecuteSmartContract", "submit", NoArgs))
    /\ ret' = [op |-> "ExecuteSmartContract", err |-> FALSE]
    /\ UNCHANGED <<cfg, now, vt>>

\* the goroutine of Send, SendWithSignatureHash or StoreData writes the entity
\* (lines 271-274, 282-288, 296-297)
TaskBuild(i) ==
    /\ i \in Tasks
    /\ sub[i].pc = "build"
    /\ LET a == sub[i].args
       IN  t' = [t EXCEPT !.txn =
                 IF sub[i].op = "Send"
                 THEN [@ EXCEPT !.TransactionType = "send", !.ToClientID = a.to,
                                !.Value = a.val, !.TransactionData = a.data]
                 ELSE IF sub[i].op = "SendWithSignatureHash"
                 THEN [@ EXCEPT !.TransactionType = "send", !.ToClientID = a.to,
                                !.Value = a.val, !.Hash = a.hash,
                                !.TransactionData = a.data, !.Signature = a.sig,
                                !.CreationDate = a.cd]
                 ELSE [@ EXCEPT !.TransactionType = "data",
                                !.TransactionData = a.data]]
    /\ sub' = [sub EXCEPT ![i].pc = "submit", ![i].args = NoArgs]
    /\ UNCHANGED <<cfg, now, ret, vt>>

\* submitTxn, lines 169-203: the status is cleared, the entity is signed
\* unless it carries a signature, and one goroutine per sampled miner starts
SubmitStart(i, signOk) ==
    /\ i \in Tasks
    /\ sub[i].pc = "submit"
    /\ LET t0 == [t EXCEPT !.txnStatus = StatusUnknown, !.txnOut = EmptyBody,
                           !.txnError = NoErr]
           sign == t.txn.Signature = NoText
           t1 == IF sign THEN [t0 EXCEPT !.txn = ComputeHashAndSign(@, signOk)]
                 ELSE t0
       IN  IF sign /\ ~signOk
           THEN /\ t' = completeTxn(t1, StatusError, EmptyBody, "sign failed")
                /\ sub' = [sub EXCEPT ![i] =
                              Completed([@ EXCEPT !.sigCall = TRUE], StatusError)]
           ELSE /\ t' = t1
                /\ sub' = [sub EXCEPT ![i].pc = "collect", ![i].signed = TRUE,
                              ![i].sigCall = sign,
                              ![i].K = cfg.sampledMiners,
                              ![i].peers = cfg.sampledMiners]
    /\ UNCHANGED <<cfg, now, ret, vt>>

\* what a miner's request can produce: 200 with a body, another status, or a
\* transport error (status 0, empty body)
MinerResponses ==
    [StatusCode : {HTTPStatusOK}, Body : MinerBodies]
    \cup {[StatusCode |-> 500, Body |-> [text |-> "garbage", entityHash |-> EmptyStr]],
          [StatusCode |-> 0, Body |-> EmptyBody]}

\* a miner goroutine posts and delivers its response (lines 196-200), and the
\* aggregator takes it (lines 207-215)
MinerRecv(i, rsp) ==
    /\ i \in Tasks
    /\ sub[i].pc = "collect"
    /\ sub[i].peers > 0
    /\ sub' = [sub EXCEPT ![i] =
                 IF rsp.StatusCode = HTTPStatusOK
                 THEN [@ EXCEPT !.peers = @ - 1, !.recv = @ + 1,
                                !.consensus = @ + 1, !.tSuccessRsp = rsp.Body]
                 ELSE [@ EXCEPT !.peers = @ - 1, !.recv = @ + 1,
                                !.tFailureRsp = rsp.Body]]
    /\ UNCHANGED <<t, cfg, now, ret, vt>>

\* a miner goroutine returns at line 194 without sending
MinerNoRequest(i) ==
    /\ i \in Tasks
    /\ sub[i].pc = "collect"
    /\ sub[i].peers > 0
    /\ sub' = [sub EXCEPT ![i].peers = @ - 1]
    /\ UNCHANGED <<t, cfg, now, ret, vt>>

\* the test of line 219 with <= for <
ConsensusNotReachedStrict(consensus, K) ==
    K # 0 /\ consensus * 100 <= cfg.consensusThresh * K

\* lines 218-219: rate := consensus*100/K; rate < consensusThresh. The float32
\* quotient compares with an integer threshold as the exact quotient does; with
\* K = 0 the quotient is NaN, and NaN < x is false
ConsensusNotReached(consensus, K) ==
    K # 0 /\ consensus * 100 < cfg.consensusThresh * K

\* submitTxn, lines 218-224, once the loop has taken K responses
SubmitDone(i) ==
    /\ i \in Tasks
    /\ sub[i].pc = "collect"
    /\ sub[i].recv = sub[i].K
    /\ IF ConsensusNotReached(sub[i].consensus, sub[i].K)
       THEN /\ t' = completeTxn(t, StatusError, EmptyBody, "submit transaction failed")
            /\ sub' = [sub EXCEPT ![i] = Completed(@, StatusError)]
       ELSE /\ t' = completeTxn(t, StatusSuccess, sub[i].tSuccessRsp, NoErr)
            /\ sub' = [sub EXCEPT ![i] = Completed(@, StatusSuccess)]
    /\ UNCHANGED <<cfg, now, ret, vt>>

\* SetTransactionCallback (lines 253-259)
SetTransactionCallback(cb) ==
    /\ IF t.txnStatus # StatusUnknown
       THEN /\ ret' = [op |-> "SetTransactionCallback", err |-> TRUE]
            /\ UNCHANGED t
       ELSE /\ ret' = [op |-> "SetTransactionCallback", err |-> FALSE]
            /\ t' = [t EXCEPT !.txnCb = cb]
    /\ UNCHANGED <<cfg, now, sub, vt>>

\* SetTransactionFee (lines 261-267)
SetTransactionFee(txnFee) ==
    /\ IF t.txnStatus # StatusUnknown
       THEN /\ ret' = [op |-> "SetTransactionFee", err |-> TRUE]
            /\ UNCHANGED t
       ELSE /\ ret' = [op |-> "SetTransactionFee", err |-> FALSE]
            /\ t' = [t EXCEPT !.txn.TransactionFee = txnFee]
    /\ UNCHANGED <<cfg, now, sub, vt>>

SubmitInit ==
    /\ t = newTransaction("cb", 0)
    /\ cfg \in {[minRequiredChainLength |-> 1, minShardersVerify |-> 1,
                 sampledMiners |-> k, consensusThresh |-> th] :
                    k \in 0..MaxMiners, th \in {25, 50, 60}}
    /\ now = 1
    /\ ret = NoRet
    /\ sub = <<>>
    /\ vt = IdleTask

\* a configuration with at least one miner to sample
ConfiguredInit == SubmitInit /\ cfg.sampledMiners >= 1

SubmitTaskStep ==
    \/ \E i \in 1..MaxTasks : TaskBuild(i)
    \/ \E i \in 1..MaxTasks, signOk \in BOOLEAN : SubmitStart(i, signOk)
    \/ \E i \in 1..MaxTasks, rsp \in MinerResponses : MinerRecv(i, rsp)
    \/ \E i \in 1..MaxTasks : MinerNoRequest(i)
    \/ \E i \in 1..MaxTasks : SubmitDone(i)

\* every goroutine started so far has run its completeTxn
NoTaskRunning == \A i \in Tasks : sub[i].pc = "done"

\* The caller starts an operation, on a fresh object or on one whose earlier
\* submissions have completed.
SubmitNext ==
    \/ NoTaskRunning /\ Send(1, 1, 1)
    \/ NoTaskRunning
         /\ SendWithSignatureHash(1, 1, 1, <<"sig", "external", 1>>, 1, <<"hash", 1>>)
    \/ NoTaskRunning /\ StoreData(2)
    \/ NoTaskRunning /\ ExecuteSmartContract(3, 3, 0)
    \/ SubmitTaskStep

SubmitSpec == SubmitInit /\ [][SubmitNext]_vars

\* goroutines are scheduled fairly
FairSubmitSpec ==
    ConfiguredInit /\ [][SubmitNext]_vars /\ WF_vars(SubmitTaskStep)

\* The same caller, who also calls the mutators at any time.
MutatorNext ==
    \/ SubmitNext
    \/ SetTransactionCallback(NoCb)
    \/ SetTransactionFee(1)
    \/ SetTransactionHash(1)

MutatorSpec == ConfiguredInit /\ [][MutatorNext]_vars

\* The caller starts operations without waiting for the earlier ones.
ConcurrentNext ==
    \/ Send(1, 1, 1)
    \/ StoreData(2)
    \/ ExecuteSmartContract(3, 3, 0)
    \/ SubmitTaskStep

ConcurrentSpec == ConfiguredInit /\ [][ConcurrentNext]_vars

----------------------------------------------------------------------------
(* isTransactionExpired as a function of its inputs. *)

\* a call isTransactionExpired(lfb, cur): the result, and the wait of line 594
CallIsTransactionExpired(lfb, cur) ==
    LET result == isTransactionExpired(t.txn.CreationDate, lfb, cur)
    IN  /\ ret' = [op |-> "isTransactionExpired", err |-> FALSE,
                   lfb |-> lfb, cur |-> cur, result |-> result]
        /\ now' = IF result THEN now ELSE SleepUntil(defaultWaitSeconds)
        /\ UNCHANGED <<t, cfg, sub, vt>>

ExpiredInit ==
    /\ t \in {[newTransaction("cb", 0) EXCEPT !.txn.CreationDate = cd] :
                 cd \in 0..MaxTime}
    /\ cfg = DefaultCfg
    /\ now = 1
    /\ ret = NoRet
    /\ sub = <<>>
    /\ vt = IdleTask

ExpiredNext == \E lfb \in 0..(MaxTime + 3), cur \in 1..(MaxTime + 3) :
                   CallIsTransactionExpired(lfb, cur)

ExpiredSpec == ExpiredInit /\ [][ExpiredNext]_vars

----------------------------------------------------------------------------
(* Claims on the confirmation engine. *)

VerifySucceeded == vt.pc = "done" /\ t.verifyStatus = StatusSuccess

\* C1, as claimed: Verify reports SUCCESS only after min_required_chain_length
\* successive headers were each checked to extend the block accepted before.
C1_SuccessOnlyAfterFullExtension ==
    VerifySucceeded => vt.extended >= cfg.minRequiredChainLength

\* C2: Verify reports SUCCESS only with a confirmation that passed the four
\* inclusion checks against the hash it was queried for, and only responses
\* that pass them are ever voted for or kept as the candidate payload.
C2_SuccessOnlyWithCheckedConfirmation ==
    /\ VerifySucceeded => PassesAllChecks(vt.qhash, t.verifyOut)
    /\ vt.pc \in {"chain1", "chainq"} => PassesAllChecks(vt.qhash, vt.confirmation)
    /\ vt.cq.votes <= vt.cq.passed
    /\ vt.cq.maxConfirmation > 0 =>
           PassesAllChecks(vt.cq.txnHash, vt.cq.confirmation)

\* a SUCCESS was reported with a confirmation whose transaction path is not
\* empty, so that the Merkle fold was computed
C2_Witness ==
    /\ VerifySucceeded
    /\ PassesAllChecks(vt.qhash, t.verifyOut)
    /\ t.verifyOut.cfm.MerkleTreePath.Nodes # <<>>

\* C4, as claimed: every Verify that started its task is eventually reported
\* through OnVerifyComplete, and no more than once.
C4_VerifyCompleteExactlyOnce ==
    /\ [](VerifyRunning => <>(vt.pc = "done" /\ vt.cbs = 1))
    /\ [](vt.cbs <= 1)

\* C8: isTransactionExpired(lfb, now) is true iff
\* min(lfb', now) > creation_date + defaultTxnExpirationSeconds, lfb' being now
\* when lfb = 0, and the call leaves the transaction as it was.
C8_ExpiredIffPastWindow ==
    ret.op = "isTransactionExpired" =>
        LET lfb1 == IF ret.lfb = 0 THEN ret.cur ELSE ret.lfb
            least == IF lfb1 <= ret.cur THEN lfb1 ELSE ret.cur
        IN  /\ ret.result <=>
                   least > t.txn.CreationDate + defaultTxnExpirationSeconds
            /\ t = [newTransaction("cb", 0) EXCEPT
                        !.txn.CreationDate = t.txn.CreationDate]

\* the boundary: min(lfb', now) is exactly the end of the window, not expired
C8_Witness ==
    /\ ret.op = "isTransactionExpired"
    /\ ret.lfb = 0
    /\ ret.cur = t.txn.CreationDate + defaultTxnExpirationSeconds
    /\ ~ret.result
    /\ t.txn.CreationDate > 0

\* C9, as claimed: when the probe found no confirmation, the quorum query is
\* issued iff the transaction is not expired by the expiration predicate.
C9_QuorumIffNotExpired ==
    [][(/\ vt.pc = "probe"
        /\ vt.cq.i = vt.cq.n
        /\ vt.cq.maxConfirmation = 0
        /\ vt' # vt)
       => ((vt'.pc = "quorum") <=>
              ~isTransactionExpired(t.txn.CreationDate, vt.cq.lfbCd, now))]_vars

\* C10, as claimed: once the clock has passed creation_date +
\* defaultTxnExpirationSeconds, a running Verify task eventually terminates
\* by completeVerify.
C10_TerminatesAfterExpiration ==
    [](VerifyRunning /\ now > t.txn.CreationDate + defaultTxnExpirationSeconds
         => <>(vt.pc = "done"))

----------------------------------------------------------------------------
(* Claims on the submission engine. *)

\* C3, as claimed: every submission task is eventually reported through
\* OnTransactionComplete, and no more than once, whatever the miner requests do.
C3_TransactionCompleteExactlyOnce ==
    /\ \A i \in 1..MaxTasks :
           [](i \in Tasks =>
                <>(i \in Tasks /\ sub[i].pc = "done" /\ sub[i].cbs = 1))
    /\ [](\A i \in Tasks : sub[i].cbs <= 1)

\* C5, as claimed: at most one submitTxn of the object is between its start
\* and its completeTxn.
C5_AtMostOneBroadcastInFlight ==
    Cardinality({i \in Tasks : sub[i].pc = "collect"}) <= 1

BroadcastBegun == \E i \in Tasks : sub[i].pc \in {"collect", "done"}

Mutators == {"SetTransactionCallback", "SetTransactionFee", "SetTransactionHash"}

\* C6, as claimed: a mutator called after a broadcast of the object has begun
\* returns an error and changes nothing; called before any submission it
\* succeeds and changes its own field only.
C6_MutatorsFailOnceBroadcastBegan ==
    [][(ret' # ret /\ ret'.op \in Mutators) =>
          /\ BroadcastBegun => (ret'.err /\ t' = t)
          /\ sub = <<>> =>
               /\ ~ret'.err
               /\ ret'.op # "SetTransactionCallback" => t'.txnCb = t.txnCb
               /\ ret'.op # "SetTransactionHash" => t'.txnHash = t.txnHash
               /\ ret'.op # "SetTransactionFee" => t'.txn = t.txn]_vars

\* C7: with K >= 1 sampled miners of which c answered 200, a submission whose
\* signing succeeded completes with SUCCESS iff 100*c/K >= consensus_threshold,
\* and with ERROR otherwise.
C7_ThresholdDecidesCompletion ==
    \A i \in Tasks :
        (sub[i].pc = "done" /\ sub[i].signed /\ sub[i].K >= 1) =>
            /\ sub[i].status \in {StatusSuccess, StatusError}
            /\ sub[i].status = StatusSuccess <=>
                   100 * sub[i].consensus >= cfg.consensusThresh * sub[i].K

\* equality accepts: 1 of 2 miners answered 200 under a threshold of 50
C7_Witness ==
    \E i \in Tasks :
        /\ sub[i].pc = "done"
        /\ sub[i].signed
        /\ sub[i].K = 2
        /\ sub[i].consensus = 1
        /\ cfg.consensusThresh = 50
        /\ sub[i].status = StatusSuccess

----------------------------------------------------------------------------
(* Claims on the status machine. *)

\* C11, as claimed: once txnStatus (resp. verifyStatus) is SUCCESS or ERROR no
\* later step changes it.
C11_StatusIsFinal ==
    [][/\ t.txnStatus # StatusUnknown => t'.txnStatus = t.txnStatus
       /\ t.verifyStatus # StatusUnknown => t'.verifyStatus = t.verifyStatus]_vars

----------------------------------------------------------------------------
(* The two voting functions, called on their own with up to MaxVoters       *)
(* sharders. ret.seen is history: the keys of the responses that carried a  *)
(* vote, in their order of arrival.                                         *)

\* getTransactionConfirmation(n, 1) is called: lines 446-453
CallGetTransactionConfirmation(n) ==
    /\ vt.pc \in {"idle", "voted"}
    /\ vt' = [IdleTask EXCEPT !.pc = "vcfm", !.cq = NewCfmQuery(n, 1)]
    /\ ret' = [op |-> "getTransactionConfirmation", seen |-> <<>>]
    /\ UNCHANGED <<t, cfg, now, sub>>

\* a sharder's response arrives: one iteration of lines 454-486
VoteCfmRecv(rsp) ==
    /\ vt.pc = "vcfm"
    /\ vt.cq.i < vt.cq.n
    /\ vt' = [vt EXCEPT !.cq = [ProcessCfmResponse(@, rsp) EXCEPT !.peers = @ - 1]]
    /\ ret' = [ret EXCEPT !.seen =
                 IF rsp.StatusCode = HTTPStatusOK /\ rsp.Body.parse
                    /\ rsp.Body.hasCfm /\ PassesAllChecks(1, rsp.Body)
                 THEN Append(@, rsp.Body.cfm.BlockHash) ELSE @]
    /\ UNCHANGED <<t, cfg, now, sub>>

\* getBlockInfoByRound(n, 2, "header") is called: lines 494-499
CallGetBlockInfoByRound(n) ==
    /\ vt.pc \in {"idle", "voted"}
    /\ vt' = [IdleTask EXCEPT !.pc = "vhdr", !.hq = NewHdrQuery(n), !.round = 2]
    /\ ret' = [op |-> "getBlockInfoByRound", seen |-> <<>>]
    /\ UNCHANGED <<t, cfg, now, sub>>

\* a sharder's response arrives: one iteration of lines 500-536
VoteHdrRecv(rsp) ==
    /\ vt.pc = "vhdr"
    /\ vt.hq.i < vt.hq.n
    /\ vt' = [vt EXCEPT !.hq = [ProcessHdrResponse(@, rsp) EXCEPT !.peers = @ - 1]]
    /\ ret' = [ret EXCEPT !.seen =
                 IF rsp.StatusCode = HTTPStatusOK /\ rsp.Body.parse
                    /\ rsp.Body.hasHeader /\ rsp.Body.hasHash
                 THEN Append(@, rsp.Body.header.Hash) ELSE @]
    /\ UNCHANGED <<t, cfg, now, sub>>

\* the loop has taken n responses and the function returns (lines 487-490,
\* 537-540)
VoteReturn ==
    /\ \/ vt.pc = "vcfm" /\ vt.cq.i = vt.cq.n
       \/ vt.pc = "vhdr" /\ vt.hq.i = vt.hq.n
    /\ vt' = [vt EXCEPT !.pc = "voted"]
    /\ UNCHANGED <<t, cfg, now, ret, sub>>

VoteInit ==
    /\ t = newTransaction("cb", 0)
    /\ cfg = DefaultCfg
    /\ now = 1
    /\ ret = [op |-> "none", seen |-> <<>>]
    /\ sub = <<>>
    /\ vt = IdleTask

VoteNext ==
    \/ \E n \in 1..MaxVoters : CallGetTransactionConfirmation(n)
    \/ \E rsp \in CfmResponses : VoteCfmRecv(rsp)
    \/ \E n \in 1..MaxVoters : CallGetBlockInfoByRound(n)
    \/ \E rsp \in HeaderResponses(2) : VoteHdrRecv(rsp)
    \/ VoteReturn

VoteSpec == VoteInit /\ [][VoteNext]_vars

\* the votes for key k among the responses seen
VotesFor(seen, k) == Cardinality({j \in 1..Len(seen) : seen[j] = k})

\* the highest vote count
TopVotes(seen) ==
    CHOOSE c \in 0..Len(seen) :
        /\ \A k \in HashSpace : VotesFor(seen, k) <= c
        /\ c > 0 => \E k \in HashSpace : VotesFor(seen, k) = c

\* among the keys with the highest count, the one whose first response
\* arrived earliest
FirstSeenTop(seen) ==
    seen[CHOOSE j \in 1..Len(seen) :
             /\ VotesFor(seen, seen[j]) = TopVotes(seen)
             /\ \A i \in 1..(j - 1) : VotesFor(seen, seen[i]) < TopVotes(seen)]

\* C12, as claimed: both voting functions return the group with the highest
\* vote count, and among groups that share the highest count the one first
\* seen.
C12_HighestCountFirstSeenWins ==
    (vt.pc = "voted" /\ ret.seen # <<>>) =>
        IF ret.op = "getTransactionConfirmation"
        THEN /\ vt.cq.maxConfirmation = TopVotes(ret.seen)
             /\ vt.cq.blockHdr.Hash = FirstSeenTop(ret.seen)
             /\ vt.cq.confirmation.cfm.BlockHash = FirstSeenTop(ret.seen)
        ELSE /\ vt.hq.maxConsensus = TopVotes(ret.seen)
             /\ vt.hq.blkHdr.Hash = FirstSeenTop(ret.seen)

----------------------------------------------------------------------------
(* Claims on signing. *)

\* submitTxn of task i is past its signing step (line 180)
PastSigning(i) == sub[i].pc \in {"collect", "done"}

\* C13, as claimed: in every submission ComputeHashAndSign is invoked unless
\* the caller supplied the signature for that submission
\* (SendWithSignatureHash), on a reused object too.
C13_SigningSkippedIffPreSigned ==
    \A i \in Tasks :
        PastSigning(i) =>
            (sub[i].sigCall <=> sub[i].op # "SendWithSignatureHash")

\* C14, as claimed: when a transaction the engine signs itself is dispatched
\* to miners, its hash is the hash of its current contributing fields and its
\* signature is the configured signer's signature of that hash.
C14_DispatchedHashMatchesFields ==
    \A i \in Tasks :
        (/\ sub[i].pc = "collect"
         /\ sub[i].K >= 1
         /\ sub[i].op # "SendWithSignatureHash") =>
            /\ t.txn.Hash = ComputeHashData(t.txn)
            /\ t.txn.Signature = signFn(t.txn.Hash)

----------------------------------------------------------------------------
(* The operations that sign with a wallet supplied by the caller. *)

FaucetSmartContractAddress == 5
MultiSigSmartContractAddress == 6

\* signWithWallet (lines 120-131): the scheme signature of hash under keys[0]
\* of the wallet handed in
signWithWallet(hash) == <<"sig", "supplied.wallet", hash>>

\* what the signer of ComputeHashAndSignWithWallet can do: sign, or fail with
\* the signature field left as it was or emptied
WalletSignOutcomes == {"signed", "kept", "cleared"}

\* txn.ComputeHashAndSignWithWallet(signWithWallet, w): as ComputeHashAndSign,
\* with the supplied wallet's signer
ComputeHashAndSignWithWallet(txn, outcome) ==
    LET t1 == [txn EXCEPT !.CreationDate = IF @ = 0 THEN now ELSE @]
        t2 == [t1 EXCEPT !.Hash = ComputeHashData(t1)]
    IN  IF outcome = "signed" THEN [t2 EXCEPT !.Signature = signWithWallet(t2.Hash)]
        ELSE IF outcome = "cleared" THEN [t2 EXCEPT !.Signature = NoText]
        ELSE t2

\* ExecuteFaucetSCWallet (lines 330-341) with createFaucetSCWallet (316-327)
ExecuteFaucetSCWallet(walletOk, input) ==
    /\ CanSpawn
    /\ IF ~walletOk
       THEN /\ ret' = [op |-> "ExecuteFaucetSCWallet", err |-> TRUE]
            /\ UNCHANGED <<t, sub>>
       ELSE /\ t' = [t EXCEPT !.txn = createSmartContractTxn(
                                         @, FaucetSmartContractAddress, input, 0)]
            /\ sub' = Append(sub, NewTask("ExecuteFaucetSCWallet", "wsign", NoArgs))
            /\ ret' = [op |-> "ExecuteFaucetSCWallet", err |-> FALSE]
    /\ UNCHANGED <<cfg, now, vt>>

\* RegisterMultiSig (lines 746-772): the wallet and the payload are parsed,
\* the call data is marshalled, the goroutine starts
RegisterMultiSig(walletOk, payloadOk, snBytes) ==
    /\ CanSpawn
    /\ IF ~walletOk \/ ~payloadOk
       THEN /\ ret' = [op |-> "RegisterMultiSig", err |-> TRUE]
            /\ UNCHANGED sub
       ELSE /\ sub' = Append(sub, NewTask("RegisterMultiSig", "wbuild",
                         [NoArgs EXCEPT !.to = MultiSigSmartContractAddress,
                                        !.data = snBytes]))
            /\ ret' = [op |-> "RegisterMultiSig", err |-> FALSE]
    /\ UNCHANGED <<t, cfg, now, vt>>

\* RegisterVote (lines 789-816)
RegisterVote(walletOk, payloadOk, snBytes) ==
    /\ CanSpawn
    /\ IF ~walletOk \/ ~payloadOk
       THEN /\ ret' = [op |-> "RegisterVote", err |-> TRUE]
            /\ UNCHANGED sub
       ELSE /\ sub' = Append(sub, NewTask("RegisterVote", "wbuild",
                         [NoArgs EXCEPT !.to = MultiSigSmartContractAddress,
                                        !.data = snBytes]))
            /\ ret' = [op |-> "RegisterVote", err |-> FALSE]
    /\ UNCHANGED <<t, cfg, now, vt>>

\* the goroutine of a wallet operation before its submitTxn: lines 337-338 for
\* ExecuteFaucetSCWallet; lines 764-768 and 809-813 for RegisterMultiSig and
\* RegisterVote, which write the entity first. The error of
\* ComputeHashAndSignWithWallet is dropped.
TaskSignWithWallet(i, outcome) ==
    /\ i \in Tasks
    /\ sub[i].pc \in {"wbuild", "wsign"}
    /\ LET a == sub[i].args
           built == IF sub[i].pc = "wbuild"
                    THEN [t.txn EXCEPT !.TransactionType = "smart contract",
                                       !.ToClientID = a.to,
                                       !.TransactionData = a.data,
                                       !.Value = 0]
                    ELSE t.txn
       IN  t' = [t EXCEPT !.txn = ComputeHashAndSignWithWallet(built, outcome)]
    /\ sub' = [sub EXCEPT ![i].pc = "submit", ![i].args = NoArgs]
    /\ UNCHANGED <<cfg, now, ret, vt>>

WalletTaskStep ==
    \/ SubmitTaskStep
    \/ \E i \in 1..MaxTasks, outcome \in WalletSignOutcomes :
           TaskSignWithWallet(i, outcome)

\* The caller starts any operation, on a fresh object or on one whose earlier
\* submissions have completed.
WalletNext ==
    \/ NoTaskRunning /\ Send(1, 1, 1)
    \/ NoTaskRunning /\ StoreData(2)
    \/ NoTaskRunning /\ ExecuteSmartContract(3, 3, 0)
    \/ NoTaskRunning /\ \E ok \in BOOLEAN : ExecuteFaucetSCWallet(ok, 4)
    \/ NoTaskRunning /\ \E wOk, pOk \in BOOLEAN : RegisterMultiSig(wOk, pOk, 4)
    \/ NoTaskRunning /\ \E wOk, pOk \in BOOLEAN : RegisterVote(wOk, pOk, 4)
    \/ WalletTaskStep

WalletSpec == ConfiguredInit /\ [][WalletNext]_vars

----------------------------------------------------------------------------
(* Claims on building and on wallet signing. *)

\* the entity carries what the call that started the task was given
EntityCarries(txn, task) ==
    LET a == task.args
    IN  CASE task.op = "Send" ->
                 /\ txn.TransactionType = "send"
                 /\ txn.ToClientID = a.to
                 /\ txn.Value = a.val
                 /\ txn.TransactionData = a.data
          [] task.op = "StoreData" ->
                 /\ txn.TransactionType = "data"
                 /\ txn.TransactionData = a.data
          [] task.op \in {"RegisterMultiSig", "RegisterVote"} ->
                 /\ txn.TransactionType = "smart contract"
                 /\ txn.ToClientID = a.to
                 /\ txn.TransactionData = a.data
                 /\ txn.Value = 0
          [] OTHER ->
                 /\ txn.TransactionType = "smart contract"
                 /\ a = NoArgs

\* C15, as claimed: when an operation returns nil, the entity already carries
\* the type, to_client_id, value and transaction_data of the call.
C15_BuiltWhenOperationReturns ==
    [][Len(sub') > Len(sub) =>
          /\ ~ret'.err
          /\ EntityCarries(t'.txn, sub'[Len(sub')])]_vars

WalletOps == {"ExecuteFaucetSCWallet", "RegisterMultiSig", "RegisterVote"}

\* C20, as claimed: a transaction of ExecuteFaucetSCWallet, RegisterMultiSig
\* or RegisterVote that is dispatched to miners carries the signature of the
\* supplied wallet's keys[0], never the configured wallet's.
C20_WalletOpsSignedBySuppliedWallet ==
    \A i \in Tasks :
        (sub[i].pc = "collect" /\ sub[i].K >= 1 /\ sub[i].op \in WalletOps) =>
            t.txn.Signature = signWithWallet(t.txn.Hash)

----------------------------------------------------------------------------
(* GetTransactionHash called by the user. *)

\* a call of GetTransactionHash (lines 364-386): the value is returned and,
\* when it was extracted from txnOut, kept in txnHash. ret records what the
\* call saw (status, out) and left (cached).
CallGetTransactionHash ==
    /\ LET h == GetTransactionHash(t)
       IN  /\ t' = [t EXCEPT !.txnHash = h]
           /\ ret' = [op |-> "GetTransactionHash", err |-> FALSE, value |-> h,
                      status |-> t.txnStatus, out |-> t.txnOut, cached |-> h]
    /\ UNCHANGED <<cfg, now, sub, vt>>

\* The caller of SubmitNext, who also reads the hash at any time and never
\* calls SetTransactionHash.
HashNext ==
    \/ SubmitNext
    \/ CallGetTransactionHash

HashSpec == ConfiguredInit /\ [][HashNext]_vars

\* C16, as claimed: a read after a SUCCESS returns the entity.hash of the
\* submission's response body and leaves it cached; a read while the status
\* is not SUCCESS, no hash having been set with SetTransactionHash, returns
\* the empty string.
C16_HashReadFollowsSubmission ==
    ret.op = "GetTransactionHash" =>
        /\ (ret.status = StatusSuccess /\ ret.out.text = "json") =>
               (ret.value = ret.out.entityHash /\ ret.cached = ret.value)
        /\ ret.status # StatusSuccess => ret.value = EmptyStr

----------------------------------------------------------------------------
(* Claims on responses that are rejected. *)

\* a sharder's response is taken by the confirmation query
CfmResponseTaken ==
    /\ vt.pc \in {"probe", "quorum"}
    /\ vt'.cq.n = vt.cq.n
    /\ vt'.cq.peers = vt.cq.peers - 1

\* the confirmation query returns without a confirmation
CfmQueryFailed ==
    /\ vt.pc \in {"probe", "quorum"}
    /\ vt.cq.i = vt.cq.n
    /\ vt.cq.maxConfirmation = 0
    /\ vt' # vt

----------------------------------------------------------------------------
(* A chain that stalls and recovers: until OutageEnd sharders answer header *)
(* queries in any way, from OutageEnd on every answer is the header of the  *)
(* requested round that extends the block accepted last.                    *)

ServesExtendingHeader(rsp) ==
    /\ rsp.StatusCode = HTTPStatusOK
    /\ rsp.Body.parse /\ rsp.Body.hasHeader /\ rsp.Body.hasHash
    /\ rsp.Body.header.Round = vt.round
    /\ LET h == rsp.Body.header
       IN  h.Hash = HashData(<<h.MinerId, vt.currentBlockHash, h.CreationDate,
                               h.Round, h.RoundRandomSeed, h.MerkleTreeRoot,
                               h.ReceiptMerkleTreeRoot>>)

StallHdrRecv ==
    \E rsp \in HeaderResponses(vt.round) :
        /\ now >= OutageEnd => ServesExtendingHeader(rsp)
        /\ HdrRecv(rsp)

StallTaskStep ==
    \/ \E rsp \in CfmResponses : CfmRecv(rsp)
    \/ CfmDone
    \/ StallHdrRecv
    \/ HdrDone

StallNext ==
    \/ SetTransactionHash(1)
    \/ Verify
    \/ StallTaskStep
    \/ Tick

\* goroutines are scheduled fairly and the clock advances
FairStallSpec ==
    VerifyInit /\ [][StallNext]_vars /\ WF_vars(StallTaskStep) /\ WF_vars(Tick)

InValidateChain == vt.pc \in {"chain1", "chainq"}

\* C18: once a valid confirmation was found, header queries that fail for a
\* finite period make the task wait and ask for the same round again, and
\* when headers are served again the task reports SUCCESS.
C18_StallThenRecoveryEndsInSuccess ==
    /\ [](InValidateChain => <>VerifySucceeded)
    /\ [][(InValidateChain /\ vt'.pc \in {"chain1", "chainq"}) =>
             /\ vt'.confirmBlock = vt.confirmBlock
             /\ vt'.round = vt.round + (vt'.extended - vt.extended)
             /\ vt'.extended - vt.extended \in {0, 1}]_vars

\* SUCCESS was reported by a validation in which a header query had failed
\* and a header was later accepted as an extension
C18_Witness ==
    /\ VerifySucceeded
    /\ vt.stalled
    /\ vt.extended >= 1

----------------------------------------------------------------------------
(* Claims on validateChain's exits. *)

\* C19: in validateChain round stays above confirmRound and never decreases;
\* the loop is left only with round >= confirmRound +
\* min_required_chain_length, and then Verify reports SUCCESS: it never goes
\* back to the confirmation query and never reports ERROR.
C19_ValidateChainNeverReturnsFalse ==
    [][InValidateChain =>
          /\ vt.round > vt.confirmRound
          /\ vt'.pc \in {"chain1", "chainq", "done"}
          /\ vt'.confirmRound = vt.confirmRound
          /\ vt'.round >= vt.round
          /\ vt'.pc = "done" =>
                 /\ t'.verifyStatus = StatusSuccess
                 /\ vt'.round >= vt'.confirmRound + cfg.minRequiredChainLength]_vars

\* the loop was left exactly at the bound, after an extension
C19_Witness ==
    /\ VerifySucceeded
    /\ cfg.minRequiredChainLength = 2
    /\ vt.extended = 1
    /\ vt.round = vt.confirmRound + 2

----------------------------------------------------------------------------
(* Verify on an object that went through submissions. *)

\* The caller submits, sets the hash and calls Verify; the Verify task's own
\* steps are left out, since only the start of the task is looked at.
LifecycleNext ==
    \/ SubmitNext
    \/ SetTransactionHash(1)
    \/ Verify

LifecycleSpec == SubmitInit /\ [][LifecycleNext]_vars

\* the submission output carries an entity with a hash
HashInOutput(tt) == tt.txnOut.text = "json" /\ tt.txnOut.entityHash # EmptyStr

\* the Verify task starts in this step
VerifyTaskStarts == ~VerifyRunning /\ vt'.pc = "probe"

\* C21: the Verify task starts only when a non-empty transaction hash is
\* available: with txnHash empty and no hash in the submission output,
\* whatever the submission status, no task starts and no callback is made.
C21_VerifyNeedsHash ==
    [][VerifyTaskStarts =>
          /\ t.txnHash # EmptyStr \/ HashInOutput(t)
          /\ vt'.cq.txnHash # EmptyStr]_vars

----------------------------------------------------------------------------
(* The fan-out protocol of submitTxn and of the two sharder queries. *)

\* C22: every spawned peer task deposits exactly one response and the
\* aggregator receives as many responses as tasks were spawned: the
\* responses taken and the peer tasks still to finish always add up to the
\* fan-out width, so no aggregator waits for a response that will not come.
C22_EveryPeerDepositsOneResponse ==
    /\ \A i \in Tasks :
           sub[i].pc = "collect" => sub[i].recv + sub[i].peers = sub[i].K
    /\ vt.pc \in {"probe", "quorum"} => vt.cq.i + vt.cq.peers = vt.cq.n
    /\ vt.pc \in {"chain1", "chainq"} => vt.hq.i + vt.hq.peers = vt.hq.n

----------------------------------------------------------------------------
(* The error accessors (lines 659-671). *)

\* GetTransactionError: t.txnError.Error() unless the status is SUCCESS; the
\* call on a nil error panics
GetTransactionError ==
    /\ ret' = [op |-> "GetTransactionError", err |-> FALSE,
               panic |-> t.txnStatus # StatusSuccess /\ t.txnError = NoErr,
               value |-> IF t.txnStatus # StatusSuccess THEN t.txnError
                         ELSE NoErr]
    /\ UNCHANGED <<t, cfg, now, sub, vt>>

\* GetVerifyError: t.verifyError.Error() unless the status is SUCCESS
GetVerifyError ==
    /\ ret' = [op |-> "GetVerifyError", err |-> FALSE,
               panic |-> t.verifyStatus # StatusSuccess /\ t.verifyError = NoErr,
               value |-> IF t.verifyStatus # StatusSuccess THEN t.verifyError
                         ELSE NoErr]
    /\ UNCHANGED <<t, cfg, now, sub, vt>>

AccessorNext ==
    \/ LifecycleNext
    \/ GetTransactionError
    \/ GetVerifyError

AccessorSpec == SubmitInit /\ [][AccessorNext]_vars

\* C23: whenever txnStatus is not SUCCESS txnError is non-nil, and whenever
\* verifyStatus is not SUCCESS verifyError is non-nil, so that neither
\* GetTransactionError nor GetVerifyError dereferences a nil error.
C23_ErrorAccessorsAreSafe ==
    /\ t.txnStatus # StatusSuccess => t.txnError # NoErr
    /\ t.verifyStatus # StatusSuccess => t.verifyError # NoErr
    /\ ret.op \in {"GetTransactionError", "GetVerifyError"} => ~ret.panic

----------------------------------------------------------------------------
(* Claims on the end of the polling. *)

\* the polling iteration ends in this step without a confirmation
PollingReportsError ==
    vt.pc \in {"probe", "quorum"} /\ vt'.pc = "done"

\* C24: when Verify reports the "verify transaction failed" ERROR, the
\* expiration predicate holds for the lfb creation time and the time sampled
\* in that iteration; an iteration that fell back to the quorum query never
\* reports ERROR: when the quorum query fails too, the task waits and starts
\* the next iteration.
C24_ErrorOnlyWhenExpired ==
    [][/\ PollingReportsError =>
             /\ t'.verifyStatus = StatusError
             /\ t'.verifyError = "verify transaction failed"
             /\ vt.pc = "probe"
             /\ vt'.tn = now
             /\ LET lfb == IF vt'.lfbCd = 0 THEN vt'.tn ELSE vt'.lfbCd
                IN  Min(lfb, vt'.tn) >
                        t.txn.CreationDate + defaultTxnExpirationSeconds
       /\ vt.pc = "quorum" /\ vt'.pc # "quorum" /\ vt.cq.maxConfirmation = 0 =>
             /\ vt'.pc = "probe"
             /\ t' = t
             /\ now' = SleepUntil(defaultWaitSeconds)]_vars

\* ERROR was reported in an iteration that follows one whose quorum query
\* had failed
C24_Witness ==
    /\ vt.pc = "done"
    /\ t.verifyStatus = StatusError
    /\ vt.escalated

----------------------------------------------------------------------------
(* Claims on the outcome of a submission. *)

\* C25: a submission completes with SUCCESS only if at least one sampled
\* miner answered 200, txnOut then being the body of a 200 response and
\* txnError nil; if no miner answered 200, zero miners sampled included, it
\* completes with ERROR, txnOut empty and txnError non-nil. Stated on the
\* latest submission once it has completed.
C25_SuccessNeedsAnAcceptingMiner ==
    \A i \in Tasks :
        (i = Len(sub) /\ sub[i].pc = "done") =>
            /\ sub[i].status = StatusSuccess =>
                   /\ sub[i].consensus >= 1
                   /\ t.txnStatus = StatusSuccess
                   /\ t.txnOut \in MinerBodies
                   /\ t.txnError = NoErr
            /\ sub[i].consensus = 0 =>
                   /\ sub[i].status = StatusError
                   /\ t.txnStatus = StatusError
                   /\ t.txnOut = EmptyBody
                   /\ t.txnError # NoErr

====
